---- MODULE Spec2Model ----
(***************************************************************************)
(* Model of the calendar engine of src/backend/calendar_utils.py           *)
(* (GoogleCalendarAPI.check_availability and suggest_available_slots)      *)
(* together with the provider it queries, of parse_natural_date and        *)
(* CalendarAgent.process_message of src/backend/agent.py, and of the chat  *)
(* session of src/frontend/app.py.                                         *)
(*                                                                         *)
(* Time is counted in minutes.  A datetime is a wall clock reading (minutes*)
(* since midnight of the target date) plus an optional UTC offset, as in   *)
(* Python: tz = <<>> is a naive datetime, tz = <<off>> an aware one.       *)
(* An ISO string is the clock text, the offset suffixes it carries and     *)
(* whether a literal "Z" is part of it.                                    *)
(***************************************************************************)
EXTENDS Integers, Sequences, FiniteSets, TLC

VARIABLES
    timezone,         \* self.timezone: UTC offset of config.TIMEZONE, minutes
    op,               \* the public operation in progress
    pc,               \* position inside that operation
    req,              \* arguments of the operation
    day_start,        \* suggest_available_slots: local day_start
    day_end,          \* suggest_available_slots: local day_end
    start_date,       \* check_availability: parameter start_date
    end_date,         \* check_availability: parameter end_date
    body,             \* freebusy query body built by check_availability
    response,         \* events_result as sent by the provider
    busy_periods,     \* busy_periods as read from the response
    current_time,     \* suggest_available_slots: loop variable
    available_slots,  \* suggest_available_slots: accumulated slots
    result,           \* what the operation returned to its caller
    error,            \* exception the operation raised to its caller
    fetches,          \* provider calls made by the operation in progress
    event_body,       \* book_event: event_body sent to the provider
    calendar,         \* the events the provider holds for the calendar
    parse_pc,         \* parse_natural_date: position
    date_str,         \* parse_natural_date: what the two parsers make of the text
    parsed,           \* parse_natural_date: the datetime returned
    parse_error,      \* parse_natural_date: the exception raised to the caller
    nl_calls,         \* calls of cal.parse in the call in progress
    strict_calls,     \* calls of parser.parse in the call in progress
    agent_pc,         \* process_message: position
    message,          \* process_message: parameter message
    agent_response,   \* process_message: what agent_executor.invoke produced
    agent_result,     \* process_message: the string returned
    invocations,      \* calls of agent_executor.invoke in the call in progress
    messages,         \* frontend: st.session_state.messages
    user_input,       \* frontend: st.session_state.user_input
    suggestion_submitted, \* frontend: st.session_state.suggestion_submitted
    chat_pc,          \* frontend: position of the script run
    chat_payload,     \* frontend: payload of the request send_message posted
    chat_response     \* frontend: the string send_message returned

\* state of the calendar engine and of its provider
engineVars == <<timezone, op, pc, req, day_start, day_end, start_date, end_date,
                body, response, busy_periods, current_time, available_slots,
                result, error, fetches, event_body, calendar>>

\* state of parse_natural_date
parseVars == <<parse_pc, date_str, parsed, parse_error, nl_calls, strict_calls>>

\* state of CalendarAgent.process_message
agentVars == <<agent_pc, message, agent_response, agent_result, invocations>>

\* state of the Streamlit session
chatVars == <<messages, user_input, suggestion_submitted, chat_pc, chat_payload,
              chat_response>>

\* state outside the calendar engine
outside == <<parseVars, agentVars, chatVars>>

vars == <<engineVars, outside>>

----------------------------------------------------------------------------
(* Bounds of the model *)

\* longest busy list the provider returns
MaxBusy == 2

\* most events booked in the calendar at a time
MaxEvents == 1

\* local clock readings of the start and end of a booking
BookableIntervals == {<<540, 600>>}

\* UTC offsets of the configured timezone (UTC and Asia/Kolkata)
Timezones == {0, 330}

\* defaults of start_hour and end_hour
DefaultStartHour == 9

DefaultEndHour == 17

\* values of start_hour / end_hour (and of the tool's start_time / end_time)
Hours == {DefaultStartHour, 12, DefaultEndHour}

\* values of duration_minutes
Durations == {-30, 0, 1, 45, 60, 480}

\* step a caller's slot request may ask for
StepChoices == {30, 60}

\* local clock readings at which provider busy intervals begin and end
BusyPoints == {540, 600, 630, 1020}

\* clock reading of the parsed target date before replace()
TargetClock == 615

----------------------------------------------------------------------------
(* datetime values *)

Naive(w) == [wall |-> w, tz |-> <<>>]

Aware(w, off) == [wall |-> w, tz |-> <<off>>]

NoDt == [wall |-> -1, tz |-> <<>>]

IsAware(dt) == Len(dt.tz) = 1

\* the instant an aware datetime denotes, in minutes UTC
Instant(dt) == dt.wall - dt.tz[1]

\* pytz: tzinfo.localize(dt) raises ValueError when dt already has a tzinfo
LocalizeRaises(dt) == IsAware(dt)

Localize(dt, zone) == [wall |-> dt.wall, tz |-> <<zone>>]

\* dt.replace(hour=h, minute=0, second=0, microsecond=0)
ReplaceHour(dt, h) == [wall |-> h * 60, tz |-> dt.tz]

\* dt + timedelta(minutes=m)
PlusMinutes(dt, m) == [wall |-> dt.wall + m, tz |-> dt.tz]

\* dt.astimezone(zone) of an aware datetime
Astimezone(dt, zone) == [wall |-> dt.wall - dt.tz[1] + zone, tz |-> <<zone>>]

\* a < b and a <= b of two aware datetimes
DtLess(a, b) == Instant(a) < Instant(b)

DtLessEq(a, b) == Instant(a) <= Instant(b)

----------------------------------------------------------------------------
(* ISO-8601 strings *)

\* dt.isoformat()
Isoformat(dt) == [clock |-> dt.wall, offsets |-> dt.tz, z |-> FALSE]

\* s + 'Z'
AppendZ(s) == [clock |-> s.clock, offsets |-> s.offsets, z |-> TRUE]

\* s.replace('Z', '+00:00')
ReplaceZ(s) ==
    IF s.z THEN [clock |-> s.clock, offsets |-> Append(s.offsets, 0), z |-> FALSE]
           ELSE s

\* datetime.fromisoformat(s), for a string with at most one offset suffix
FromIsoformat(s) == [wall |-> s.clock, tz |-> s.offsets]

\* the provider's rendering of the instant u (minutes UTC): "...T..:..:..Z"
ZString(u) == [clock |-> u, offsets |-> <<>>, z |-> TRUE]

----------------------------------------------------------------------------
(* The provider: freebusy().query(body).execute() *)

SeqsUpTo(S, n) == UNION {[1..k -> S] : k \in 0..n}

\* an event the provider holds: the instants its start and end denote
Event(s, e) == [start |-> s, end |-> e]

NoEvent == Event(-1, -1)

\* the provider's rendering of an interval of instants
ZInterval(s, e) == [start |-> ZString(s), end |-> ZString(e)]

\* busy intervals the provider may report, as pairs of "Z" strings
ProviderIntervals ==
    {ZInterval(p[1] - timezone, p[2] - timezone) :
        p \in {q \in BusyPoints \X BusyPoints : q[1] < q[2]}}
    \cup {ZInterval(ev.start, ev.end) : ev \in calendar}

\* the events a booking of the model can create
EventIds ==
    {Event(iv[1] - o, iv[2] - o) : iv \in BookableIntervals, o \in Timezones}

\* events().list(orderBy='startTime'): the events in the order of their start
RECURSIVE SortEvents(_)
SortEvents(S) ==
    IF S = {} THEN <<>>
    ELSE LET first == CHOOSE ev \in S :
                         \A other \in S :
                             \/ ev.start < other.start
                             \/ (ev.start = other.start /\ ev.end <= other.end)
         IN  <<first>> \o SortEvents(S \ {first})

\* the instants the provider may take a timeMin / timeMax string for: a "Z"
\* string is UTC; a string with both an offset and a "Z" is not RFC 3339, and
\* a provider that does not reject it honours the one or the other
Readings(s) ==
    IF Len(s.offsets) = 0 THEN {s.clock} ELSE {s.clock - s.offsets[1], s.clock}

\* the answer reports every event of the calendar that overlaps the queried
\* window, at least for the part inside the window
Truthful(busy, tmin, tmax) ==
    \A ev \in calendar :
        (ev.start < tmax /\ tmin < ev.end) =>
            \E j \in 1..Len(busy) :
                /\ busy[j].start.clock <= (IF ev.start > tmin THEN ev.start ELSE tmin)
                /\ busy[j].end.clock >= (IF ev.end < tmax THEN ev.end ELSE tmax)

\* failures of execute(): an HTTP error status, or the transport failing
ProviderErrors == {"HttpError", "OSError"}

\* events_result: any list of busy intervals, in any order, with repetitions
ProviderResponses ==
    [status : {"ok"}, error : {"none"}, busy : SeqsUpTo(ProviderIntervals, MaxBusy)]

\* execute() raising instead of answering
ProviderFailures == [status : {"failed"}, error : ProviderErrors, busy : {<<>>}]

NoResponse == [status |-> "none", error |-> "none", busy |-> <<>>]

----------------------------------------------------------------------------
(* check_availability *)

\* time_min / time_max and the request body
QueryBody(sd, ed) ==
    [timeMin |-> AppendZ(Isoformat(sd)), timeMax |-> AppendZ(Isoformat(ed))]

NoBody == QueryBody(NoDt, NoDt)

RECURSIVE InsertByStart(_, _)
InsertByStart(x, sq) ==
    IF sq = <<>> THEN <<x>>
    ELSE IF x.start.clock <= Head(sq).start.clock
         THEN <<x>> \o sq
         ELSE <<Head(sq)>> \o InsertByStart(x, Tail(sq))

RECURSIVE SortByStart(_)
SortByStart(sq) ==
    IF sq = <<>> THEN <<>> ELSE InsertByStart(Head(sq), SortByStart(Tail(sq)))

\* variant: the busy list is sorted by start time before it is returned
ExtractBusySorted(events_result) == SortByStart(events_result.busy)

\* events_result['calendars'][self.calendar_id]['busy'], returned as it is
ExtractBusy(events_result) == events_result.busy

\* event_body of book_event: the two dateTime strings
EventBody(st, et) == [start |-> Isoformat(st), end |-> Isoformat(et)]

NoEventBody == EventBody(NoDt, NoDt)

NoResult == [returned |-> FALSE, value |-> <<>>]

Returned(v) == [returned |-> TRUE, value |-> v]

----------------------------------------------------------------------------
(* suggest_available_slots *)

\* the step of the candidate sweep
StepMinutes == 30

\* busy_period['start'] / ['end'] parsed and moved to the calendar timezone
BusyBound(s) == Astimezone(FromIsoformat(ReplaceZ(s)), timezone)

\* variant: intervals that only touch count as a conflict
ConflictsClosed(cur, slot_end, busy_start, busy_end) ==
    DtLessEq(cur, busy_end) /\ DtLessEq(busy_start, slot_end)

\* variant: only a candidate that starts inside the busy period conflicts
ConflictsStartInside(cur, slot_end, busy_start, busy_end) ==
    DtLessEq(busy_start, cur) /\ DtLess(cur, busy_end)

\* variant: only a candidate strictly inside the busy period conflicts
ConflictsStrictlyInside(cur, slot_end, busy_start, busy_end) ==
    DtLess(busy_start, cur) /\ DtLess(slot_end, busy_end)

\* the conflict test of one candidate against one busy period
Conflicts(cur, slot_end, busy_start, busy_end) ==
    DtLess(cur, busy_end) /\ DtLess(busy_start, slot_end)

\* the inner for loop: is_available after scanning busy[i..], with its break
RECURSIVE IsAvailableFrom(_, _, _, _)
IsAvailableFrom(cur, slot_end, busy, i) ==
    IF i > Len(busy) THEN TRUE
    ELSE IF Conflicts(cur, slot_end, BusyBound(busy[i].start), BusyBound(busy[i].end))
         THEN FALSE
         ELSE IsAvailableFrom(cur, slot_end, busy, i + 1)

\* the dict appended to available_slots
SlotDict(cur, slot_end, d) ==
    [start |-> Isoformat(cur), end |-> Isoformat(slot_end), duration_minutes |-> d]

\* variant: the candidate only has to start inside the window
LoopConditionStart(cur, d, dend) == DtLessEq(cur, dend)

\* variant: the candidate has to end before the end of the window
LoopConditionStrict(cur, d, dend) == DtLess(PlusMinutes(cur, d), dend)

\* the while condition
LoopCondition(cur, d, dend) == DtLessEq(PlusMinutes(cur, d), dend)

\* variant: the sweep advances by a whole hour
NextCandidateHour(cur) == PlusMinutes(cur, 60)

\* current_time += timedelta(minutes=30)
NextCandidate(cur) == PlusMinutes(cur, StepMinutes)

NoReq ==
    [target_date |-> NoDt, duration_minutes |-> 0, start_hour |-> 0,
     end_hour |-> 0, stepMinutes |-> 0, start_time |-> NoDt, end_time |-> NoDt,
     event_id |-> NoEvent]

----------------------------------------------------------------------------
(* parse_natural_date *)

\* clock readings a date text may stand for
ParseClocks == {540, 615, 900}

\* clock reading of the moment of the call
NowClock == 700

\* cal.parse(date_str): a match, no match (parse_status 0), or an exception
NlOutcomes ==
    [kind : {"match"}, value : {Naive(c) : c \in ParseClocks}]
    \cup [kind : {"nomatch", "raise"}, value : {NoDt}]

\* parser.parse(date_str): a naive datetime, one with the offset the text
\* carries, or ParserError
StrictOutcomes ==
    [kind : {"match"},
     value : {Naive(c) : c \in ParseClocks}
             \cup {Aware(c, o) : c \in ParseClocks, o \in Timezones}]
    \cup [kind : {"raise"}, value : {NoDt}]

\* a text, as the pair of what each parser makes of it
Texts == [nl : NlOutcomes, strict : StrictOutcomes]

NoText == [nl |-> [kind |-> "nomatch", value |-> NoDt],
           strict |-> [kind |-> "raise", value |-> NoDt]]

\* time_struct of cal.parse: the match, or the current time when nothing matched
TimeStruct(o) == IF o.kind = "match" THEN o.value ELSE Naive(NowClock)

----------------------------------------------------------------------------
(* State machine *)

(* Text.  A string is a sequence of pieces: a blank, a word, or one of the
   fixed sentences of the program taken whole. *)

Space == " "

Word == "x"

\* the marker process_message looks for in the output of the executor
ErrorMarker == "Encountered an error processing your request."

PleaseProvide == <<"Please provide a message first.">>

NetworkError == <<"Network Error">>

\* longest text of a message, an output or an observation, in pieces
MaxText == 2

\* most intermediate steps in a response of the executor
MaxSteps == 2

\* str.strip(): the text without its leading and trailing blanks
RECURSIVE LStrip(_)
LStrip(s) ==
    IF s = <<>> THEN s
    ELSE IF Head(s) = Space THEN LStrip(Tail(s)) ELSE s

RECURSIVE RStrip(_)
RStrip(s) ==
    IF s = <<>> THEN s
    ELSE IF s[Len(s)] = Space THEN RStrip(SubSeq(s, 1, Len(s) - 1)) ELSE s

Strip(s) == RStrip(LStrip(s))

\* sub in s, for a sub of one piece
Contains(s, sub) == \E i \in 1..Len(s) : s[i] = sub

\* what a caller may pass as message
MessageTexts == SeqsUpTo({Space, Word}, MaxText)

\* what the executor may put in 'output'
OutputTexts == SeqsUpTo({Space, Word, ErrorMarker}, MaxText)

\* what a tool may have returned as an observation
Observations == SeqsUpTo({Space, Word}, MaxText)

\* an intermediate step: an (action, observation) pair, or something else
StepValues ==
    [pair : {TRUE}, observation : Observations]
    \cup {[pair |-> FALSE, observation |-> <<>>]}

\* what agent_executor.invoke may return: a dict whose 'output' is missing
\* or None (<<>>) or a string (<<text>>), or a value that is not a dict
ExecutorResponses ==
    [kind : {"dict"},
     output : {<<>>} \cup {<<t>> : t \in OutputTexts},
     steps : SeqsUpTo(StepValues, MaxSteps)]
    \cup {[kind |-> "other", output |-> <<>>, steps |-> <<>>]}

NoAgentResponse == [kind |-> "none", output |-> <<>>, steps |-> <<>>]

ExecutorRaised == [kind |-> "raised", output |-> <<>>, steps |-> <<>>]

\* response.get('output', '') or ''
OutputOf(r) == IF r.output = <<>> THEN <<>> ELSE r.output[1]

\* variant: the output is returned whenever it is not blank
SelectResponseAnyOutput(r) ==
    IF r.kind # "dict" THEN NetworkError
    ELSE IF Strip(OutputOf(r)) # <<>> THEN OutputOf(r)
    ELSE IF Len(r.steps) > 0
              /\ r.steps[Len(r.steps)].pair
              /\ Strip(r.steps[Len(r.steps)].observation) # <<>>
         THEN r.steps[Len(r.steps)].observation
         ELSE NetworkError

\* the choice process_message makes once the executor has answered
SelectResponse(r) ==
    IF r.kind # "dict" THEN NetworkError
    ELSE IF Strip(OutputOf(r)) # <<>> /\ ~Contains(OutputOf(r), ErrorMarker)
         THEN OutputOf(r)
    ELSE IF Len(r.steps) > 0
              /\ r.steps[Len(r.steps)].pair
              /\ Strip(r.steps[Len(r.steps)].observation) # <<>>
         THEN r.steps[Len(r.steps)].observation
         ELSE NetworkError

\* most messages the session is followed for
MaxMessages == 4

\* what the user may type in the form
FormTexts == SeqsUpTo({Space, Word}, MaxText)

\* the texts of the example buttons
Examples ==
    {<<"What's my availability next week?">>, <<"Show me my schedule for today">>}

\* what send_message may return: the reply of the backend, or an error text
Replies ==
    {<<Word>>, NetworkError, <<"Error: Request timed out. Please try again.">>}

\* an entry of st.session_state.messages; the timestamp is a datetime
Message(role, content) ==
    [role |-> role, content |-> content, timestamp |-> "datetime"]

\* the entry of chat_history made from a message: its timestamp is a string
HistoryEntry(msg) ==
    [role |-> msg.role, content |-> msg.content, timestamp |-> "isoformat"]

\* chat_history as built from st.session_state.messages[:-1]
ChatHistory(msgs) ==
    [i \in 1..(Len(msgs) - 1) |-> HistoryEntry(msgs[i])]

\* the payload of a request to /chat
NoPayload == [message |-> <<>>, chat_history |-> <<>>]

\* the payload send_message posts
Payload(text, chat_history) == [message |-> text, chat_history |-> chat_history]

\* variant: the reply is dropped when the last message has the same content
AppendReplyByContent(msgs, reply) ==
    IF ~(Len(msgs) > 0 /\ msgs[Len(msgs)].content = reply)
    THEN Append(msgs, Message("assistant", reply))
    ELSE msgs

\* the reply is appended unless the last message is the same assistant message
AppendReply(msgs, reply) ==
    IF ~(Len(msgs) > 0
            /\ msgs[Len(msgs)].role = "assistant"
            /\ msgs[Len(msgs)].content = reply)
    THEN Append(msgs, Message("assistant", reply))
    ELSE msgs

----------------------------------------------------------------------------
Init ==
    /\ timezone \in Timezones
    /\ op = "none"
    /\ pc = "idle"
    /\ req = NoReq
    /\ day_start = NoDt
    /\ day_end = NoDt
    /\ start_date = NoDt
    /\ end_date = NoDt
    /\ body = NoBody
    /\ response = NoResponse
    /\ busy_periods = <<>>
    /\ current_time = NoDt
    /\ available_slots = <<>>
    /\ result = NoResult
    /\ error = "none"
    /\ fetches = 0
    /\ event_body = NoEventBody
    /\ calendar = {}
    /\ parse_pc = "idle"
    /\ date_str = NoText
    /\ parsed = NoDt
    /\ parse_error = "none"
    /\ nl_calls = 0
    /\ strict_calls = 0
    /\ agent_pc = "idle"
    /\ message = <<>>
    /\ agent_response = NoAgentResponse
    /\ agent_result = <<>>
    /\ invocations = 0
    /\ messages = <<>>
    /\ user_input = <<>>
    /\ suggestion_submitted = FALSE
    /\ chat_pc = "idle"
    /\ chat_payload = NoPayload
    /\ chat_response = <<>>

\* CheckAvailabilityTool._run calls check_availability with two parsed
\* (naive) datetimes; the body is built and the provider call is pending
CheckAvailabilityCall ==
    /\ pc = "idle"
    /\ \E sh \in Hours, eh \in Hours :
          /\ start_date' = Naive(sh * 60)
          /\ end_date' = Naive(eh * 60)
          /\ body' = QueryBody(start_date', end_date')
    /\ op' = "check"
    /\ pc' = "fetch"
    /\ UNCHANGED <<timezone, req, day_start, day_end, response, busy_periods,
                   current_time, available_slots, result, error, fetches>>
    /\ UNCHANGED <<event_body, calendar, outside>>

\* suggest_available_slots up to the call of check_availability: localize,
\* the two replace() calls, and check_availability building its body
SuggestSlotsCall ==
    /\ pc = "idle"
    /\ op' = "suggest"
    /\ \E d \in Durations, sh \in Hours, eh \in Hours, st \in StepChoices,
          td \in {Naive(TargetClock), Aware(TargetClock, timezone)} :
          /\ req' = [NoReq EXCEPT !.target_date = td, !.duration_minutes = d,
                                  !.start_hour = sh, !.end_hour = eh,
                                  !.stepMinutes = st]
          /\ IF LocalizeRaises(td)
             THEN /\ error' = "ValueError"
                  /\ pc' = "raised"
                  /\ UNCHANGED <<day_start, day_end, start_date, end_date, body>>
             ELSE /\ day_start' = ReplaceHour(Localize(td, timezone), sh)
                  /\ day_end' = ReplaceHour(Localize(td, timezone), eh)
                  /\ start_date' = day_start'
                  /\ end_date' = day_end'
                  /\ body' = QueryBody(start_date', end_date')
                  /\ pc' = "fetch"
                  /\ UNCHANGED error
    /\ UNCHANGED <<timezone, response, busy_periods, current_time,
                   available_slots, result, fetches>>
    /\ UNCHANGED <<event_body, calendar, outside>>

\* execute() answers: check_availability reads the busy list and returns it;
\* suggest_available_slots then starts its sweep at day_start
FetchReturns ==
    /\ pc = "fetch"
    /\ \E r \in ProviderResponses :
          /\ \E tmin \in Readings(body.timeMin), tmax \in Readings(body.timeMax) :
                Truthful(r.busy, tmin, tmax)
          /\ response' = r
          /\ busy_periods' = ExtractBusy(r)
    /\ fetches' = fetches + 1
    /\ IF op = "check"
       THEN /\ result' = Returned(busy_periods')
            /\ pc' = "done"
            /\ UNCHANGED <<current_time, available_slots>>
       ELSE /\ available_slots' = <<>>
            /\ current_time' = day_start
            /\ pc' = "sweep"
            /\ UNCHANGED result
    /\ UNCHANGED <<timezone, op, req, day_start, day_end, start_date, end_date,
                   body, error>>
    /\ UNCHANGED <<event_body, calendar, outside>>

\* variant: a failed fetch is swallowed and an empty list is returned
FetchRaisesSwallowed ==
    /\ pc = "fetch"
    /\ \E f \in ProviderFailures : response' = f
    /\ fetches' = fetches + 1
    /\ result' = Returned(<<>>)
    /\ pc' = "done"
    /\ UNCHANGED <<timezone, op, req, day_start, day_end, start_date, end_date,
                   body, busy_periods, current_time, available_slots, error>>
    /\ UNCHANGED <<event_body, calendar, outside>>

\* execute() fails: check_availability logs and re-raises (HttpError) or lets
\* the exception pass; suggest_available_slots logs and re-raises
FetchRaises ==
    /\ pc = "fetch"
    /\ \E f \in ProviderFailures :
          /\ response' = f
          /\ error' = f.error
    /\ fetches' = fetches + 1
    /\ pc' = "raised"
    /\ UNCHANGED <<timezone, op, req, day_start, day_end, start_date, end_date,
                   body, busy_periods, current_time, available_slots, result>>
    /\ UNCHANGED <<event_body, calendar, outside>>

\* variant: every iteration asks the provider again
SweepStepRefetching ==
    /\ pc = "sweep"
    /\ LoopCondition(current_time, req.duration_minutes, day_end)
    /\ LET slot_end == PlusMinutes(current_time, req.duration_minutes)
       IN  available_slots' =
              IF IsAvailableFrom(current_time, slot_end, busy_periods, 1)
              THEN Append(available_slots,
                          SlotDict(current_time, slot_end, req.duration_minutes))
              ELSE available_slots
    /\ current_time' = NextCandidate(current_time)
    /\ fetches' = fetches + 1
    /\ UNCHANGED <<timezone, op, pc, req, day_start, day_end, start_date,
                   end_date, body, response, busy_periods, result, error>>
    /\ UNCHANGED <<event_body, calendar, outside>>

\* one iteration of the while loop
SweepStep ==
    /\ pc = "sweep"
    /\ LoopCondition(current_time, req.duration_minutes, day_end)
    /\ LET slot_end == PlusMinutes(current_time, req.duration_minutes)
       IN  available_slots' =
              IF IsAvailableFrom(current_time, slot_end, busy_periods, 1)
              THEN Append(available_slots,
                          SlotDict(current_time, slot_end, req.duration_minutes))
              ELSE available_slots
    /\ current_time' = NextCandidate(current_time)
    /\ UNCHANGED <<timezone, op, pc, req, day_start, day_end, start_date,
                   end_date, body, response, busy_periods, result, error,
                   fetches>>
    /\ UNCHANGED <<event_body, calendar, outside>>

\* the while condition fails: return available_slots
SweepReturn ==
    /\ pc = "sweep"
    /\ ~LoopCondition(current_time, req.duration_minutes, day_end)
    /\ result' = Returned(available_slots)
    /\ pc' = "done"
    /\ UNCHANGED <<timezone, op, req, day_start, day_end, start_date, end_date,
                   body, response, busy_periods, current_time, available_slots,
                   error, fetches>>
    /\ UNCHANGED <<event_body, calendar, outside>>

\* the caller has the result or the exception; the locals are gone
CallEnds ==
    /\ pc \in {"done", "raised"}
    /\ op' = "none"
    /\ pc' = "idle"
    /\ req' = NoReq
    /\ day_start' = NoDt
    /\ day_end' = NoDt
    /\ start_date' = NoDt
    /\ end_date' = NoDt
    /\ body' = NoBody
    /\ response' = NoResponse
    /\ busy_periods' = <<>>
    /\ current_time' = NoDt
    /\ available_slots' = <<>>
    /\ result' = NoResult
    /\ error' = "none"
    /\ fetches' = 0
    /\ event_body' = NoEventBody
    /\ UNCHANGED timezone
    /\ UNCHANGED <<calendar, outside>>

\* book_event up to the insert: a naive time gets the calendar timezone, an
\* aware one keeps its offset; event_body carries the two ISO strings
BookEventCall ==
    /\ pc = "idle"
    /\ Cardinality(calendar) < MaxEvents
    /\ op' = "book"
    /\ pc' = "insert"
    /\ \E iv \in BookableIntervals,
          tz \in {<<>>} \cup {<<o>> : o \in Timezones} :
          LET start_time == [wall |-> iv[1], tz |-> tz]
              end_time == [wall |-> iv[2], tz |-> tz]
              st == IF IsAware(start_time) THEN start_time
                    ELSE Localize(start_time, timezone)
              et == IF IsAware(end_time) THEN end_time
                    ELSE Localize(end_time, timezone)
          IN  /\ req' = [NoReq EXCEPT !.start_time = start_time,
                                      !.end_time = end_time]
              /\ event_body' = EventBody(st, et)
    /\ UNCHANGED <<timezone, day_start, day_end, start_date, end_date, body,
                   response, busy_periods, current_time, available_slots,
                   result, error, fetches, calendar, outside>>

\* insert().execute() answers: the provider holds the event, book_event
\* returns its id and the times the provider echoes
InsertReturns ==
    /\ pc = "insert"
    /\ LET ev == Event(Instant(FromIsoformat(event_body.start)),
                       Instant(FromIsoformat(event_body.end)))
       IN  /\ calendar' = calendar \cup {ev}
           /\ result' = Returned(<<[id |-> ev, start_time |-> event_body.start,
                                    end_time |-> event_body.end]>>)
    /\ response' = [status |-> "ok", error |-> "none", busy |-> <<>>]
    /\ fetches' = fetches + 1
    /\ pc' = "done"
    /\ UNCHANGED <<timezone, op, req, day_start, day_end, start_date, end_date,
                   body, busy_periods, current_time, available_slots, error,
                   event_body, outside>>

\* insert().execute() fails: book_event logs and re-raises
InsertRaises ==
    /\ pc = "insert"
    /\ \E f \in ProviderFailures :
          /\ response' = f
          /\ error' = f.error
    /\ fetches' = fetches + 1
    /\ pc' = "raised"
    /\ UNCHANGED <<timezone, op, req, day_start, day_end, start_date, end_date,
                   body, busy_periods, current_time, available_slots, result,
                   event_body, calendar, outside>>

\* get_events_for_date up to the list call: localize, then the bounds of the
\* day (23:59:59.999999 is the last minute of the day in this time unit)
GetEventsCall ==
    /\ pc = "idle"
    /\ op' = "get_events"
    /\ \E td \in {Naive(TargetClock), Aware(TargetClock, timezone)} :
          /\ req' = [NoReq EXCEPT !.target_date = td]
          /\ IF LocalizeRaises(td)
             THEN /\ error' = "ValueError"
                  /\ pc' = "raised"
                  /\ UNCHANGED <<day_start, day_end, body>>
             ELSE /\ day_start' = ReplaceHour(Localize(td, timezone), 0)
                  /\ day_end' = PlusMinutes(ReplaceHour(Localize(td, timezone), 23), 59)
                  /\ body' = [timeMin |-> Isoformat(day_start'),
                              timeMax |-> Isoformat(day_end')]
                  /\ pc' = "list"
                  /\ UNCHANGED error
    /\ UNCHANGED <<timezone, start_date, end_date, response, busy_periods,
                   current_time, available_slots, result, fetches, event_body,
                   calendar, outside>>

\* list().execute() answers with the events of that day ordered by start
\* time; get_events_for_date returns their start and end strings
ListReturns ==
    /\ pc = "list"
    /\ LET tmin == Instant(FromIsoformat(body.timeMin))
           tmax == Instant(FromIsoformat(body.timeMax))
           items == SortEvents({ev \in calendar : ev.start < tmax /\ tmin < ev.end})
       IN  result' = Returned([i \in 1..Len(items) |->
                         [id |-> items[i],
                          start |-> Isoformat(Aware(items[i].start + timezone, timezone)),
                          end |-> Isoformat(Aware(items[i].end + timezone, timezone))]])
    /\ response' = [status |-> "ok", error |-> "none", busy |-> <<>>]
    /\ fetches' = fetches + 1
    /\ pc' = "done"
    /\ UNCHANGED <<timezone, op, req, day_start, day_end, start_date, end_date,
                   body, busy_periods, current_time, available_slots, error,
                   event_body, calendar, outside>>

\* list().execute() fails: get_events_for_date logs and re-raises
ListRaises ==
    /\ pc = "list"
    /\ \E f \in ProviderFailures :
          /\ response' = f
          /\ error' = f.error
    /\ fetches' = fetches + 1
    /\ pc' = "raised"
    /\ UNCHANGED <<timezone, op, req, day_start, day_end, start_date, end_date,
                   body, busy_periods, current_time, available_slots, result,
                   event_body, calendar, outside>>

\* delete_event is called with the id of an event
DeleteEventCall ==
    /\ pc = "idle"
    /\ op' = "delete"
    /\ pc' = "delete"
    /\ \E id \in EventIds : req' = [NoReq EXCEPT !.event_id = id]
    /\ UNCHANGED <<timezone, day_start, day_end, start_date, end_date, body,
                   response, busy_periods, current_time, available_slots,
                   result, error, fetches, event_body, calendar, outside>>

\* delete().execute() succeeds: the event is gone, delete_event returns True
DeleteReturns ==
    /\ pc = "delete"
    /\ req.event_id \in calendar
    /\ calendar' = calendar \ {req.event_id}
    /\ response' = [status |-> "ok", error |-> "none", busy |-> <<>>]
    /\ result' = Returned(<<TRUE>>)
    /\ fetches' = fetches + 1
    /\ pc' = "done"
    /\ UNCHANGED <<timezone, op, req, day_start, day_end, start_date, end_date,
                   body, busy_periods, current_time, available_slots, error,
                   event_body, outside>>

\* variant: an HTTP error of the delete is raised to the caller
DeleteRefusedRaising ==
    /\ pc = "delete"
    /\ response' = [status |-> "failed", error |-> "HttpError", busy |-> <<>>]
    /\ error' = "HttpError"
    /\ fetches' = fetches + 1
    /\ pc' = "raised"
    /\ UNCHANGED <<timezone, op, req, day_start, day_end, start_date, end_date,
                   body, busy_periods, current_time, available_slots, result,
                   event_body, calendar, outside>>

\* delete().execute() raises HttpError (unknown id, or the provider failing):
\* delete_event logs and returns False
DeleteRefused ==
    /\ pc = "delete"
    /\ response' = [status |-> "failed", error |-> "HttpError", busy |-> <<>>]
    /\ result' = Returned(<<FALSE>>)
    /\ fetches' = fetches + 1
    /\ pc' = "done"
    /\ UNCHANGED <<timezone, op, req, day_start, day_end, start_date, end_date,
                   body, busy_periods, current_time, available_slots, error,
                   event_body, calendar, outside>>

\* delete().execute() raises something else than HttpError: not caught
DeleteRaises ==
    /\ pc = "delete"
    /\ response' = [status |-> "failed", error |-> "OSError", busy |-> <<>>]
    /\ error' = "OSError"
    /\ fetches' = fetches + 1
    /\ pc' = "raised"
    /\ UNCHANGED <<timezone, op, req, day_start, day_end, start_date, end_date,
                   body, busy_periods, current_time, available_slots, result,
                   event_body, calendar, outside>>

Next ==
    \/ CheckAvailabilityCall
    \/ SuggestSlotsCall
    \/ FetchReturns
    \/ FetchRaises
    \/ SweepStep
    \/ SweepReturn
    \/ CallEnds

Spec == Init /\ [][Next]_vars

\* the engine together with the operations that read and change the events
NextCalendar ==
    \/ CheckAvailabilityCall
    \/ SuggestSlotsCall
    \/ FetchReturns
    \/ FetchRaises
    \/ SweepStep
    \/ SweepReturn
    \/ BookEventCall
    \/ InsertReturns
    \/ InsertRaises
    \/ GetEventsCall
    \/ ListReturns
    \/ ListRaises
    \/ DeleteEventCall
    \/ DeleteReturns
    \/ DeleteRefused
    \/ DeleteRaises
    \/ CallEnds

SpecCalendar == Init /\ [][NextCalendar]_vars

\* the engine with its while loop running on: the loop is straight-line code
\* on one thread, so an iteration or the exit that can be taken is taken
SpecLive == Spec /\ WF_vars(SweepStep) /\ WF_vars(SweepReturn)

----------------------------------------------------------------------------
(* parse_natural_date, step by step *)

\* a tool calls parse_natural_date(date_str)
ParseCall ==
    /\ parse_pc = "idle"
    /\ date_str' \in Texts
    /\ parse_pc' = "nl"
    /\ UNCHANGED <<parsed, parse_error, nl_calls, strict_calls, engineVars, agentVars, chatVars>>

\* variant: time_struct is returned without a look at parse_status
ParseNaturalLanguageUnchecked ==
    /\ parse_pc = "nl"
    /\ nl_calls' = nl_calls + 1
    /\ IF date_str.nl.kind = "raise"
       THEN parse_pc' = "except" /\ UNCHANGED parsed
       ELSE parsed' = TimeStruct(date_str.nl) /\ parse_pc' = "returned"
    /\ UNCHANGED <<date_str, parse_error, strict_calls, engineVars, agentVars, chatVars>>

\* cal.parse(date_str) inside the try: an exception leads to the handler,
\* parse_status 0 to the fallback, a match is returned as a datetime
ParseNaturalLanguage ==
    /\ parse_pc = "nl"
    /\ nl_calls' = nl_calls + 1
    /\ IF date_str.nl.kind = "raise"
       THEN parse_pc' = "except" /\ UNCHANGED parsed
       ELSE IF date_str.nl.kind = "nomatch"
            THEN parse_pc' = "fallback" /\ UNCHANGED parsed
            ELSE parsed' = TimeStruct(date_str.nl) /\ parse_pc' = "returned"
    /\ UNCHANGED <<date_str, parse_error, strict_calls, engineVars, agentVars, chatVars>>

\* parser.parse(date_str) inside the try: its exception leads to the handler
FallbackInTry ==
    /\ parse_pc = "fallback"
    /\ strict_calls' = strict_calls + 1
    /\ IF date_str.strict.kind = "raise"
       THEN parse_pc' = "except" /\ UNCHANGED parsed
       ELSE parsed' = date_str.strict.value /\ parse_pc' = "returned"
    /\ UNCHANGED <<date_str, parse_error, nl_calls, engineVars, agentVars, chatVars>>

\* parser.parse(date_str) inside the handler: its exception reaches the caller
FallbackInExcept ==
    /\ parse_pc = "except"
    /\ strict_calls' = strict_calls + 1
    /\ IF date_str.strict.kind = "raise"
       THEN parse_error' = "ParserError" /\ parse_pc' = "raised" /\ UNCHANGED parsed
       ELSE parsed' = date_str.strict.value /\ parse_pc' = "returned"
                /\ UNCHANGED parse_error
    /\ UNCHANGED <<date_str, nl_calls, engineVars, agentVars, chatVars>>

\* the caller has the datetime or the exception
ParseEnds ==
    /\ parse_pc \in {"returned", "raised"}
    /\ parse_pc' = "idle"
    /\ date_str' = NoText
    /\ parsed' = NoDt
    /\ parse_error' = "none"
    /\ nl_calls' = 0
    /\ strict_calls' = 0
    /\ UNCHANGED <<engineVars, agentVars, chatVars>>

NextParse ==
    \/ ParseCall
    \/ ParseNaturalLanguage
    \/ FallbackInTry
    \/ FallbackInExcept
    \/ ParseEnds

SpecParse == Init /\ [][NextParse]_vars

----------------------------------------------------------------------------
(* CalendarAgent.process_message, step by step *)

\* /chat calls process_message: a blank message is answered at once
ProcessMessageCall ==
    /\ agent_pc = "idle"
    /\ message' \in MessageTexts
    /\ IF Strip(message') = <<>>
       THEN agent_result' = PleaseProvide /\ agent_pc' = "returned"
       ELSE agent_pc' = "invoke" /\ UNCHANGED agent_result
    /\ UNCHANGED <<agent_response, invocations, engineVars, parseVars, chatVars>>

\* agent_executor.invoke returns and process_message chooses what to return
ExecutorAnswers ==
    /\ agent_pc = "invoke"
    /\ agent_response' \in ExecutorResponses
    /\ invocations' = invocations + 1
    /\ agent_result' = SelectResponse(agent_response')
    /\ agent_pc' = "returned"
    /\ UNCHANGED <<message, engineVars, parseVars, chatVars>>

\* variant: an exception of the executor reaches the caller
ExecutorRaisesUncaught ==
    /\ agent_pc = "invoke"
    /\ agent_response' = ExecutorRaised
    /\ invocations' = invocations + 1
    /\ agent_pc' = "raised"
    /\ UNCHANGED <<message, agent_result, engineVars, parseVars, chatVars>>

\* agent_executor.invoke raises: the handler returns "Network Error"
ExecutorRaises ==
    /\ agent_pc = "invoke"
    /\ agent_response' = ExecutorRaised
    /\ invocations' = invocations + 1
    /\ agent_result' = NetworkError
    /\ agent_pc' = "returned"
    /\ UNCHANGED <<message, engineVars, parseVars, chatVars>>

\* /chat has the string
ProcessMessageEnds ==
    /\ agent_pc \in {"returned", "raised"}
    /\ agent_pc' = "idle"
    /\ message' = <<>>
    /\ agent_response' = NoAgentResponse
    /\ agent_result' = <<>>
    /\ invocations' = 0
    /\ UNCHANGED <<engineVars, parseVars, chatVars>>

NextAgent ==
    \/ ProcessMessageCall
    \/ ExecutorAnswers
    \/ ExecutorRaises
    \/ ProcessMessageEnds

SpecAgent == Init /\ [][NextAgent]_vars

----------------------------------------------------------------------------
(* The Streamlit script of src/frontend/app.py.  A run of the script is
   followed up to the request it posts, and from the reply to its end. *)

\* "Send": the form hands over its text and is cleared; a text that is not
\* blank is appended as a user message and posted with the history before it
FormSubmit ==
    /\ chat_pc = "idle"
    /\ \E text \in FormTexts :
          IF Strip(text) # <<>>
          THEN /\ Len(messages) + 2 <= MaxMessages
               /\ messages' = Append(messages, Message("user", text))
               /\ chat_payload' = Payload(text, ChatHistory(messages'))
               /\ chat_pc' = "posting"
          ELSE UNCHANGED <<messages, chat_payload, chat_pc>>
    /\ user_input' = <<>>
    /\ UNCHANGED <<suggestion_submitted, chat_response,
                   engineVars, parseVars, agentVars>>

\* an example button: the text is put in user_input, the flag is set, rerun
ExampleClick ==
    /\ chat_pc = "idle"
    /\ Len(messages) + 2 <= MaxMessages
    /\ user_input' \in Examples
    /\ suggestion_submitted' = TRUE
    /\ chat_pc' = "rerun"
    /\ UNCHANGED <<messages, chat_payload, chat_response,
                   engineVars, parseVars, agentVars>>

\* "Clear Chat": the list is emptied, rerun
ClearChat ==
    /\ chat_pc = "idle"
    /\ messages' = <<>>
    /\ chat_pc' = "rerun"
    /\ UNCHANGED <<user_input, suggestion_submitted, chat_payload, chat_response,
                   engineVars, parseVars, agentVars>>

\* send_message returns: the reply is appended, st.rerun() is called
SendMessageReturns ==
    /\ chat_pc = "posting"
    /\ chat_response' \in Replies
    /\ messages' = AppendReply(messages, chat_response')
    /\ chat_pc' = "rerun"
    /\ UNCHANGED <<user_input, suggestion_submitted, chat_payload,
                   engineVars, parseVars, agentVars>>

\* the script runs again with nothing submitted: a pending suggestion is
\* taken from user_input, appended as a user message and posted
Rerun ==
    /\ chat_pc = "rerun"
    /\ chat_response' = <<>>
    /\ suggestion_submitted' = FALSE
    /\ IF suggestion_submitted /\ Strip(user_input) # <<>>
       THEN /\ messages' = Append(messages, Message("user", user_input))
            /\ chat_payload' = Payload(user_input, ChatHistory(messages'))
            /\ chat_pc' = "posting"
       ELSE /\ chat_payload' = NoPayload
            /\ chat_pc' = "idle"
            /\ UNCHANGED messages
    /\ UNCHANGED <<user_input, engineVars, parseVars, agentVars>>

NextChat ==
    \/ FormSubmit
    \/ ExampleClick
    \/ ClearChat
    \/ SendMessageReturns
    \/ Rerun

SpecChat == Init /\ [][NextChat]_vars

----------------------------------------------------------------------------
(* Type invariant *)

TypeOK ==
    /\ timezone \in Timezones
    /\ op \in {"none", "check", "suggest", "book", "get_events", "delete"}
    /\ pc \in {"idle", "fetch", "sweep", "insert", "list", "delete", "done", "raised"}
    /\ Cardinality(calendar) <= MaxEvents
    /\ fetches \in 0..1
    /\ error \in {"none", "ValueError"} \cup ProviderErrors

----------------------------------------------------------------------------
(* Vocabulary of the properties *)

\* the instant an ISO string with one offset, or a "Z" string, denotes
InstantOf(s) == IF s.z THEN s.clock ELSE s.clock - s.offsets[1]

SuggestDone == op = "suggest" /\ pc = "done"

CheckDone == op = "check" /\ pc = "done"

\* the window of the call in progress, as instants
WindowStart == req.start_hour * 60 - timezone

WindowEnd == req.end_hour * 60 - timezone

\* half-open overlap of [a, b) and [c, d)
Overlap(a, b, c, d) == a < d /\ c < b

\* does the candidate [a, b) overlap a busy interval of the provider's answer
OverlapsBusy(a, b) ==
    \E j \in 1..Len(response.busy) :
        Overlap(a, b, InstantOf(response.busy[j].start), InstantOf(response.busy[j].end))

----------------------------------------------------------------------------
(* C1: no slot returned by suggest_available_slots overlaps (half-open test)
   a busy interval of the provider's answer for that window. *)
C1_SlotFreedom ==
    SuggestDone =>
        \A i \in 1..Len(result.value) :
            ~OverlapsBusy(InstantOf(result.value[i].start),
                          InstantOf(result.value[i].end))

\* slots are returned although the provider reported two busy intervals
C1_Witness ==
    /\ SuggestDone
    /\ Len(response.busy) = 2
    /\ response.busy[1] # response.busy[2]
    /\ Len(result.value) >= 2
    /\ req.duration_minutes = 60

(* C2: every returned slot starts at or after start_hour:00 and ends at or
   before end_hour:00 of the target date in the calendar timezone, and has
   the full requested length. *)
C2_SlotContainment ==
    SuggestDone =>
        /\ Instant(day_start) = WindowStart
        /\ Instant(day_end) = WindowEnd
        /\ \A i \in 1..Len(result.value) :
              /\ InstantOf(result.value[i].start) >= WindowStart
              /\ InstantOf(result.value[i].end) <= WindowEnd
              /\ InstantOf(result.value[i].end) - InstantOf(result.value[i].start)
                    = req.duration_minutes
              /\ result.value[i].duration_minutes = req.duration_minutes

\* a 45 minute request on 09:00-12:00 returns a last slot ending before 12:00,
\* the next candidate would have to be truncated to fit
C2_Witness ==
    /\ SuggestDone
    /\ req.duration_minutes = 45
    /\ req.start_hour = 9
    /\ req.end_hour = 12
    /\ Len(result.value) > 0
    /\ InstantOf(result.value[Len(result.value)].end) = WindowEnd - 15

(* C3: an iteration of the sweep rejects its candidate exactly when some busy
   interval overlaps it in the half-open sense; a candidate that only touches
   a busy interval is appended. *)
C3_HalfOpenOverlap ==
    [][(pc = "sweep" /\ pc' = "sweep") =>
          LET a == Instant(current_time)
              b == Instant(current_time) + req.duration_minutes
          IN  IF OverlapsBusy(a, b)
              THEN available_slots' = available_slots
              ELSE /\ Len(available_slots') = Len(available_slots) + 1
                   /\ InstantOf(available_slots'[Len(available_slots')].start) = a
                   /\ InstantOf(available_slots'[Len(available_slots')].end) = b]_vars

\* a returned slot ends exactly where a busy interval begins, and another
\* begins exactly where a busy interval ends
C3_Witness ==
    /\ SuggestDone
    /\ req.duration_minutes = 60
    /\ \E i \in 1..Len(result.value), j \in 1..Len(response.busy) :
          InstantOf(result.value[i].end) = InstantOf(response.busy[j].start)
    /\ \E i \in 1..Len(result.value), j \in 1..Len(response.busy) :
          InstantOf(result.value[i].start) = InstantOf(response.busy[j].end)

----------------------------------------------------------------------------
(* Step grid *)

\* indices k of the candidates day_start + k*step that fit the window
GridIndices(step) ==
    LET room == (WindowEnd - WindowStart) - req.duration_minutes
    IN  IF room < 0 THEN {} ELSE 0..(room \div step)

\* start instants of the free fitting candidates on the grid of that step
FreeGridStarts(step) ==
    {WindowStart + k * step : k \in
        {i \in GridIndices(step) :
            ~OverlapsBusy(WindowStart + i * step,
                          WindowStart + i * step + req.duration_minutes)}}

\* the returned slots are exactly the free fitting candidates of that grid
ReturnsGrid(step) ==
    /\ {InstantOf(result.value[i].start) : i \in 1..Len(result.value)}
          = FreeGridStarts(step)
    /\ Len(result.value) = Cardinality(FreeGridStarts(step))
    /\ \A i \in 1..Len(result.value) :
          InstantOf(result.value[i].end)
             = InstantOf(result.value[i].start) + req.duration_minutes

(* C4 as stated: the returned slots are exactly the free fitting candidates
   window.start + k*stepMinutes, stepMinutes being the step of the caller's
   request. *)
C4_RequestedStepGrid == SuggestDone => ReturnsGrid(req.stepMinutes)

(* C4: the returned slots are exactly the free candidates
   day_start + k*30 minutes (k = 0,1,2,...) of length duration_minutes whose
   end is <= day_end; the step is 30 minutes whatever step the caller's
   request names; no free fitting candidate of that grid is omitted and no
   slot off that grid is returned. *)
C4_FixedStepGrid == SuggestDone => ReturnsGrid(30)

\* a request naming a 60 minute step gets a slot at window start + 30 minutes
C4_Witness ==
    /\ SuggestDone
    /\ req.stepMinutes = 60
    /\ req.duration_minutes = 60
    /\ Len(response.busy) > 0
    /\ \E i \in 1..Len(result.value) :
          InstantOf(result.value[i].start) = WindowStart + 30
    /\ Len(result.value) < Cardinality(GridIndices(30))

\* the 09:00-17:00 request with no busy interval, duration 60, step 60
C5_Case ==
    /\ SuggestDone
    /\ req.start_hour = 9
    /\ req.end_hour = 17
    /\ req.duration_minutes = 60
    /\ response.busy = <<>>

\* the ISO string of a local clock reading in the calendar timezone
LocalIso(clock) == [clock |-> clock, offsets |-> <<timezone>>, z |-> FALSE]

\* the slot dict of the local interval [a, b)
LocalSlot(a, b) ==
    [start |-> LocalIso(a), end |-> LocalIso(b), duration_minutes |-> b - a]

(* C5 as stated: on 09:00-17:00 with no busy interval and duration and step
   both 60, exactly 7 slots 09:00-10:00, ..., 16:00-17:00 are returned. *)
C5_SevenHourlySlots ==
    (C5_Case /\ req.stepMinutes = 60) =>
        /\ Len(result.value) = 7
        /\ result.value[1] = LocalSlot(540, 600)
        /\ result.value[Len(result.value)] = LocalSlot(960, 1020)

(* C5: on 09:00-17:00 with no busy interval and duration 60, whatever step
   the request names, exactly 15 slots are returned: 09:00-10:00,
   09:30-10:30, ..., 16:00-17:00; the slot ending exactly at the end of the
   window is included. *)
C5_FifteenHalfHourlySlots ==
    C5_Case =>
        /\ Len(result.value) = 15
        /\ \A i \in 1..Len(result.value) :
              result.value[i] = LocalSlot(540 + 30 * (i - 1), 600 + 30 * (i - 1))
        /\ result.value[Len(result.value)] = LocalSlot(960, 1020)

C5_Witness == C5_Case /\ req.stepMinutes = 60 /\ Len(result.value) > 0

\* 09:00-12:00, duration 60, one busy interval [10:00, 10:30) local
C6_Case ==
    /\ SuggestDone
    /\ req.start_hour = 9
    /\ req.end_hour = 12
    /\ req.duration_minutes = 60
    /\ response.busy = <<[start |-> ZString(600 - timezone),
                          end |-> ZString(630 - timezone)]>>

(* C6: on 09:00-12:00 with duration 60 (step 30) and the single busy interval
   [10:00, 10:30), exactly 09:00-10:00, 10:30-11:30 and 11:00-12:00 are
   returned. *)
C6_SingleConflictCarveOut ==
    C6_Case =>
        result.value =
            <<LocalSlot(540, 600), LocalSlot(630, 690), LocalSlot(660, 720)>>

C6_Witness == C6_Case /\ timezone = 330 /\ Len(result.value) = 3

\* 09:00-17:00 with the single busy interval [09:00, 17:00) local
C7_Case ==
    /\ SuggestDone
    /\ req.start_hour = 9
    /\ req.end_hour = 17
    /\ response.busy = <<[start |-> ZString(540 - timezone),
                          end |-> ZString(1020 - timezone)]>>

(* C7: when the busy set is the single interval [09:00, 17:00) on a
   09:00-17:00 window, no slot is returned for any duration from 1 minute
   to 8 hours. *)
C7_FullDayConflict ==
    (C7_Case /\ req.duration_minutes >= 1 /\ req.duration_minutes <= 480) =>
        (result.returned /\ result.value = <<>>)

\* the extremes of the range: 1 minute and the whole 8 hours
C7_Witness ==
    /\ C7_Case
    /\ req.duration_minutes \in {1, 480}
    /\ result.returned

----------------------------------------------------------------------------
(* C8: one call of suggest_available_slots asks the provider exactly once,
   before the first candidate is examined, and never during the sweep. *)
C8_SingleRoundTrip ==
    op = "suggest" =>
        /\ pc = "fetch" =>
              (fetches = 0 /\ current_time = NoDt /\ available_slots = <<>>)
        /\ pc \in {"sweep", "done"} => fetches = 1

\* a finished sweep over 15 candidates against two busy intervals
C8_Witness ==
    /\ SuggestDone
    /\ Len(busy_periods) = 2
    /\ Cardinality(GridIndices(30)) = 15
    /\ fetches = 1

\* the window check_availability sent to the provider, read as the provider
\* reads a "Z" string
QueriedStart == InstantOf(body.timeMin)

QueriedEnd == InstantOf(body.timeMax)

SortedByStart(sq) ==
    \A i \in 1..Len(sq), j \in 1..Len(sq) :
        i < j => InstantOf(sq[i].start) <= InstantOf(sq[j].start)

AllOverlapQueried(sq) ==
    \A i \in 1..Len(sq) :
        Overlap(InstantOf(sq[i].start), InstantOf(sq[i].end), QueriedStart, QueriedEnd)

(* C9 as stated: check_availability returns only intervals overlapping the
   queried window, sorted by start time ascending. *)
C9_FilteredAndSorted ==
    CheckDone => (SortedByStart(result.value) /\ AllOverlapQueried(result.value))

(* C9: check_availability returns the provider's busy list as received: the
   same intervals in the same order, neither filtered to the queried window
   nor sorted. *)
C9_ProviderListUnchanged ==
    CheckDone => (response.status = "ok" /\ result = Returned(response.busy))

\* an unsorted answer with an interval outside the window is returned
C9_Witness ==
    /\ CheckDone
    /\ Len(response.busy) = 2
    /\ ~SortedByStart(response.busy)
    /\ ~AllOverlapQueried(response.busy)
    /\ QueriedStart < QueriedEnd
    /\ result.returned

(* C10: when the busy-interval fetch fails, check_availability and
   suggest_available_slots raise that error to their caller, return no list,
   and have called the provider once. *)
C10_FailurePropagates ==
    response.status = "failed" =>
        /\ pc = "raised"
        /\ error = response.error
        /\ error \in ProviderErrors
        /\ result = NoResult
        /\ available_slots = <<>>
        /\ fetches = 1

C10_Witness ==
    /\ response.status = "failed"
    /\ op = "suggest"
    /\ pc = "raised"
    /\ error = "HttpError"

----------------------------------------------------------------------------
\* a request that is not a valid slot request: no positive duration, or a
\* window whose start is not before its end
InvalidRequest ==
    op = "suggest" /\ (req.duration_minutes <= 0 \/ req.start_hour >= req.end_hour)

(* C11: a slot request with a non-positive duration, or with a window whose
   start is not before its end, is rejected with an error;
   suggest_available_slots never returns a slot list for it, and never a
   slot of zero or negative length. *)
C11_FailFast ==
    /\ InvalidRequest => (pc # "done" /\ ~result.returned)
    /\ \A i \in 1..Len(available_slots) :
          InstantOf(available_slots[i].start) < InstantOf(available_slots[i].end)

----------------------------------------------------------------------------
\* the larger and the smaller of two instants
Later(a, b) == IF a > b THEN a ELSE b

Earlier(a, b) == IF a < b THEN a ELSE b

\* the window the caller of check_availability asked about: its two clock
\* readings taken in the calendar timezone
AskedStart == start_date.wall - timezone

AskedEnd == end_date.wall - timezone

(* C12: a booking that completed at the provider before a check_availability
   or suggest_available_slots call starts is reflected in that call's result:
   check_availability reports the booked interval busy (as far as it lies in
   the window asked about) and suggest_available_slots suggests no slot that
   overlaps it. *)
C12_BookingReflected ==
    /\ CheckDone =>
          \A ev \in calendar :
              Overlap(ev.start, ev.end, AskedStart, AskedEnd) =>
                  \E j \in 1..Len(result.value) :
                      /\ InstantOf(result.value[j].start) <= Later(ev.start, AskedStart)
                      /\ InstantOf(result.value[j].end) >= Earlier(ev.end, AskedEnd)
    /\ SuggestDone =>
          \A ev \in calendar :
              \A i \in 1..Len(result.value) :
                  ~Overlap(InstantOf(result.value[i].start),
                           InstantOf(result.value[i].end), ev.start, ev.end)

----------------------------------------------------------------------------
(* C14: a parsed time without offset gets the calendar timezone attached and
   a parsed time that carries an offset is accepted and keeps it, on every
   path that consumes a parsed instant: suggest_available_slots,
   get_events_for_date and book_event. *)
C14_TimezoneAttachment ==
    /\ op \in {"suggest", "get_events"} =>
          /\ error # "ValueError"
          /\ pc \in {"fetch", "list", "sweep", "done"} =>
                day_start.tz = (IF IsAware(req.target_date)
                                THEN req.target_date.tz ELSE <<timezone>>)
    /\ op = "book" =>
          /\ error # "ValueError"
          /\ event_body.start.offsets = (IF IsAware(req.start_time)
                                         THEN req.start_time.tz ELSE <<timezone>>)
          /\ event_body.end.offsets = (IF IsAware(req.end_time)
                                       THEN req.end_time.tz ELSE <<timezone>>)

(* C15: the timeMin and timeMax that check_availability sends denote the
   instants of the window the caller resolved in the calendar timezone, for
   every configured offset, however the provider reads the two strings. *)
C15_QueriedWindowIsAskedWindow ==
    (op \in {"check", "suggest"} /\ pc \in {"fetch", "sweep", "done"}) =>
        /\ \A tmin \in Readings(body.timeMin) : tmin = AskedStart
        /\ \A tmax \in Readings(body.timeMax) : tmax = AskedEnd

----------------------------------------------------------------------------
\* parse_natural_date has returned or raised
ParseOver == parse_pc \in {"returned", "raised"}

(* C13: parse_natural_date tries the natural-language parser first and
   returns its result whenever it matches; the strict parser is consulted
   only when the natural-language parser reports no match or raises; when
   both fail the call raises instead of returning a default instant. *)
C13_ParserStrategyOrder ==
    /\ (strict_calls > 0 \/ ParseOver) => nl_calls = 1
    /\ strict_calls > 0 => date_str.nl.kind \in {"nomatch", "raise"}
    /\ (ParseOver /\ date_str.nl.kind = "match") =>
          (parse_pc = "returned" /\ parsed = date_str.nl.value /\ strict_calls = 0)
    /\ (ParseOver /\ date_str.nl.kind # "match" /\ date_str.strict.kind = "match") =>
          (parse_pc = "returned" /\ parsed = date_str.strict.value)
    /\ (ParseOver /\ date_str.nl.kind # "match" /\ date_str.strict.kind = "raise") =>
          (parse_pc = "raised" /\ parse_error = "ParserError" /\ parsed = NoDt)

\* nothing matched and the strict parser failed too: the call has raised
C13_Witness ==
    /\ parse_pc = "raised"
    /\ date_str.nl.kind = "nomatch"
    /\ date_str.strict.kind = "raise"
    /\ nl_calls = 1
    /\ strict_calls = 2


----------------------------------------------------------------------------
\* the while loop of suggest_available_slots as a function of the busy list
RECURSIVE SweepFrom(_, _, _)
SweepFrom(cur, busy, slots) ==
    IF ~LoopCondition(cur, req.duration_minutes, day_end) THEN slots
    ELSE LET slot_end == PlusMinutes(cur, req.duration_minutes)
         IN  SweepFrom(NextCandidate(cur), busy,
                       IF IsAvailableFrom(cur, slot_end, busy, 1)
                       THEN Append(slots, SlotDict(cur, slot_end, req.duration_minutes))
                       ELSE slots)

\* the instants at which a busy interval of the provider may start or end
GridPoints ==
    {InstantOf(iv.start) : iv \in ProviderIntervals}
    \cup {InstantOf(iv.end) : iv \in ProviderIntervals}

\* the grid point after p
NextPoint(p) ==
    CHOOSE q \in GridPoints : q > p /\ \A r \in GridPoints : r > p => q <= r

\* the grid points a busy list covers: its union, piece by piece
Covered(busy) ==
    {p \in GridPoints :
        \E i \in 1..Len(busy) :
            InstantOf(busy[i].start) <= p /\ p < InstantOf(busy[i].end)}

\* the union of a busy list cut at every grid point, in the order of time:
\* two busy lists have the same union exactly when they have the same pieces
Pieces(busy) ==
    LET evs == SortEvents({Event(p, NextPoint(p)) : p \in Covered(busy)})
    IN  [i \in 1..Len(evs) |-> ZInterval(evs[i].start, evs[i].end)]

\* the list read backwards, after itself: a permutation with duplicates
Shuffled(busy) ==
    busy \o [i \in 1..Len(busy) |-> busy[Len(busy) + 1 - i]]

(* C16: the slot list suggest_available_slots returns depends only on the
   union of the busy intervals: it is the list returned for the same
   intervals permuted and duplicated, and the list returned for the pieces
   of their union, which every busy list with that union shares. *)
C16_UnionOnly ==
    SuggestDone =>
        /\ result.value = SweepFrom(day_start, Shuffled(busy_periods), <<>>)
        /\ result.value = SweepFrom(day_start, Pieces(busy_periods), <<>>)

\* the same, for requests with a positive duration
C16_UnionOnlyPositive ==
    (SuggestDone /\ req.duration_minutes > 0) =>
        /\ result.value = SweepFrom(day_start, Shuffled(busy_periods), <<>>)
        /\ result.value = SweepFrom(day_start, Pieces(busy_periods), <<>>)

----------------------------------------------------------------------------
\* a sweep for a window that is an interval and a positive duration
C17_Case ==
    /\ op = "suggest"
    /\ req.duration_minutes > 0
    /\ req.start_hour < req.end_hour

\* the slots found so far start one strictly after the other
StrictlyIncreasingStarts(slots) ==
    \A i \in 1..Len(slots) : \A j \in 1..Len(slots) :
        i < j => InstantOf(slots[i].start) < InstantOf(slots[j].start)

\* at most (window.end - window.start) / step slots
WithinStepBound(slots, step) == Len(slots) * step <= WindowEnd - WindowStart

\* the sweep of a positive duration ends, and what it returns is in order
\* and within the bound of the given step
SweepOrderedAndBounded(slots, step) ==
    (C17_Case /\ pc \in {"sweep", "done"}) =>
        (StrictlyIncreasingStarts(slots) /\ WithinStepBound(slots, step))

(* C17 as stated: suggest_available_slots terminates for every window and
   every positive duration, returns slots in strictly increasing order of
   start time, and returns at most (window.end - window.start) / stepMinutes
   slots for the stepMinutes of the request. *)
C17_RequestedStepBound ==
    /\ [](SweepOrderedAndBounded(available_slots, req.stepMinutes))
    /\ (C17_Case /\ pc = "sweep") ~> (pc = "done")

(* C17: suggest_available_slots terminates for every window and every
   positive duration, returns slots in strictly increasing order of start
   time, and returns at most (window.end - window.start) / 30 slots: the
   sweep advances by 30 minutes whatever step the request asks for. *)
C17_FixedStepBound ==
    /\ [](SweepOrderedAndBounded(available_slots, 30))
    /\ (C17_Case /\ pc = "sweep") ~> (pc = "done")

\* a one-minute slot asked for with a step of an hour: the free day yields
\* one slot per half hour, which is the bound exactly
C17_Witness ==
    /\ SuggestDone
    /\ C17_Case
    /\ req.duration_minutes = 1
    /\ req.stepMinutes = 60
    /\ WindowEnd - WindowStart = 480
    /\ Len(result.value) = 16
    /\ result.value = available_slots


----------------------------------------------------------------------------
(* C18: delete_event calls the provider exactly once; it returns True
   exactly when that call succeeded; when the provider answers with an HTTP
   error it returns False, without a second call and without an exception. *)
C18_BestEffortDelete ==
    op = "delete" =>
        /\ pc = "delete" => (fetches = 0 /\ ~result.returned)
        /\ pc \in {"done", "raised"} => fetches = 1
        /\ pc = "done" =>
              /\ result.returned
              /\ result.value \in {<<TRUE>>, <<FALSE>>}
              /\ (result.value = <<TRUE>>) <=> (response.status = "ok")
        /\ response.error = "HttpError" =>
              (pc = "done" /\ result.value = <<FALSE>> /\ error = "none")

\* the provider refused the delete and delete_event has returned False
C18_Witness ==
    /\ op = "delete"
    /\ pc = "done"
    /\ response.error = "HttpError"
    /\ result = Returned(<<FALSE>>)
    /\ fetches = 1


----------------------------------------------------------------------------
\* the output of the executor that process_message may hand on
UsableOutput(r) ==
    /\ r.kind = "dict"
    /\ Strip(OutputOf(r)) # <<>>
    /\ ~Contains(OutputOf(r), ErrorMarker)

\* the last intermediate step has an observation that is not blank
UsableObservation(r) ==
    /\ r.kind = "dict"
    /\ Len(r.steps) > 0
    /\ r.steps[Len(r.steps)].pair
    /\ Strip(r.steps[Len(r.steps)].observation) # <<>>

(* C19: process_message always returns a non-empty string and never raises;
   a blank message returns "Please provide a message first." without a call
   of the executor; otherwise the executor is called exactly once and the
   result is its non-blank output without the error marker, else the
   non-blank observation of the last intermediate step, else
   "Network Error", which is also the result when the executor raises. *)
C19_ResponseSelection ==
    /\ agent_pc # "raised"
    /\ agent_pc = "invoke" => invocations = 0
    /\ agent_pc = "returned" =>
          /\ Len(agent_result) > 0
          /\ Strip(message) = <<>> =>
                (agent_result = PleaseProvide /\ invocations = 0)
          /\ Strip(message) # <<>> =>
                /\ invocations = 1
                /\ UsableOutput(agent_response) =>
                      agent_result = OutputOf(agent_response)
                /\ (~UsableOutput(agent_response) /\ UsableObservation(agent_response)) =>
                      agent_result =
                          agent_response.steps[Len(agent_response.steps)].observation
                /\ (~UsableOutput(agent_response) /\ ~UsableObservation(agent_response)) =>
                      agent_result = NetworkError

\* the output carries the error marker and the last step has an observation:
\* the observation is what process_message returned
C19_Witness ==
    /\ agent_pc = "returned"
    /\ Strip(message) # <<>>
    /\ agent_response.kind = "dict"
    /\ Contains(OutputOf(agent_response), ErrorMarker)
    /\ Len(agent_response.steps) = 2
    /\ UsableObservation(agent_response)
    /\ agent_result = agent_response.steps[2].observation


----------------------------------------------------------------------------
\* user, assistant, user, assistant, ... from the first message on
Alternates(msgs) ==
    \A i \in 1..Len(msgs) :
        msgs[i].role = (IF i % 2 = 1 THEN "user" ELSE "assistant")

\* the transcript between two steps of the script
C20_Shape ==
    /\ Alternates(messages)
    /\ chat_pc # "posting" => Len(messages) % 2 = 0
    /\ chat_pc = "posting" =>
          /\ Strip(chat_payload.message) # <<>>
          /\ Len(messages) = Len(chat_payload.chat_history) + 1
          /\ messages[Len(messages)] = Message("user", chat_payload.message)
    /\ (chat_pc = "rerun" /\ chat_payload # NoPayload) =>
          /\ Len(messages) = Len(chat_payload.chat_history) + 2
          /\ messages[Len(messages) - 1] = Message("user", chat_payload.message)
          /\ messages[Len(messages)] = Message("assistant", chat_response)

\* what a submission and its reply do to the transcript
C20_Step ==
    /\ (chat_pc # "posting" /\ chat_pc' = "posting") =>
          /\ messages' = Append(messages, Message("user", chat_payload'.message))
          /\ chat_payload'.chat_history =
                [i \in 1..Len(messages) |-> HistoryEntry(messages[i])]
    /\ chat_pc = "posting" =>
          /\ messages' = Append(messages, Message("assistant", chat_response'))
          /\ chat_payload' = chat_payload
    /\ (chat_pc # "posting" /\ chat_pc' # "posting") =>
          (messages' = messages \/ messages' = <<>>)

(* C20: after any sequence of form submits, example clicks and clears the
   stored messages alternate user, assistant from the first one on; each
   submission that is not blank appends exactly one user message and then
   exactly one assistant message; the history posted with a submission is
   the list of the messages before its user message, in their order. *)
C20_TranscriptAlternates == []C20_Shape /\ [][C20_Step]_vars

\* a form submit after an example, answered with the text that was sent
C20_Witness ==
    /\ chat_pc = "rerun"
    /\ Len(messages) = 4
    /\ Len(chat_payload.chat_history) = 2
    /\ messages[1].content \in Examples
    /\ messages[3].content = <<Word>>
    /\ messages[4].content = messages[3].content

====
